---- MODULE Spec2Model ----
(***************************************************************************)
(* A model of zencrc/crc32.py: CRC32 tags in file names and SFV files.     *)
(*                                                                         *)
(* A string is a sequence of one-character strings, a file's content is    *)
(* the sequence of its bytes (ASCII), and the file system is a function    *)
(* from the paths of the regular files to their contents together with the *)
(* set of the directories' paths.                                          *)
(***************************************************************************)
EXTENDS Integers, Sequences, FiniteSets, TLC

VARIABLES
    fs,        \* path -> content, for the regular files that exist
    dirs,      \* the paths of the directories that exist
    lastOp,    \* the function called last ("none" before the first call)
    arg,       \* its argument
    ret,       \* what it returned
    exc,       \* the exception that escaped it ("none" when it returned)
    out,       \* the status it printed for its file ("" when it printed none)
    summary,   \* verify_sfv_file: the counters of the printed summary
    opened,    \* verify_sfv_file: the paths handed to CRC32_from_file, in order
    options,   \* cli: the options of the run (verify, append, sfv, checksfv)
    filelist,  \* cli: the file list; create_sfv_file: its in_files
    mode,      \* cli: the mode the run is in ("idle" outside a run)
    idx,       \* cli: the position in filelist of the file to process next
    reports    \* cli: what the run has reported, one entry per file processed

cliVars == <<options, filelist, mode, idx, reports>>

vars == <<fs, dirs, lastOp, arg, ret, exc, out, summary, opened,
          options, filelist, mode, idx, reports>>

-----------------------------------------------------------------------------
(* Characters *)

\* The printable ASCII characters, code 32 first ("grave" stands for the
\* grave accent, code 96, which a string of this notation cannot hold).
Printable ==
  << " ", "!", "\"", "#", "$", "%", "&", "'", "(", ")", "*", "+", ",", "-", ".", "/",
     "0", "1", "2", "3", "4", "5", "6", "7", "8", "9", ":", ";", "<", "=", ">", "?",
     "@", "A", "B", "C", "D", "E", "F", "G", "H", "I", "J", "K", "L", "M", "N", "O",
     "P", "Q", "R", "S", "T", "U", "V", "W", "X", "Y", "Z", "[", "\\", "]", "^", "_",
     "grave", "a", "b", "c", "d", "e", "f", "g", "h", "i", "j", "k", "l", "m", "n", "o",
     "p", "q", "r", "s", "t", "u", "v", "w", "x", "y", "z", "{", "|", "}", "~" >>

\* ord(c) for a printable character or a line feed.
Ord(c) ==
    IF c = "\n" THEN 10
    ELSE 31 + (CHOOSE i \in 1..Len(Printable) : Printable[i] = c)

\* The characters whose codes lie in lo..hi.
CodeRange(lo, hi) == {Printable[n - 31] : n \in lo..hi}

LowerCaseLetters == CodeRange(97, 122)

UpperCaseLetters == CodeRange(65, 90)

\* chr(n) for the code of a printable character.
Chr(n) == Printable[n - 31]

IsLowerCase(c) == c \in LowerCaseLetters

IsUpperCase(c) == c \in UpperCaseLetters

\* str.upper() on one character.
UpperChar(c) == IF IsLowerCase(c) THEN Chr(Ord(c) - 32) ELSE c

\* The other case of a letter, the character itself otherwise.
SwapCase(c) ==
    IF IsLowerCase(c) THEN Chr(Ord(c) - 32)
    ELSE IF IsUpperCase(c) THEN Chr(Ord(c) + 32)
    ELSE c

\* str.upper()
str_upper(s) == [i \in 1..Len(s) |-> UpperChar(s[i])]

\* \s on ASCII text restricted to the characters of the model.
IsSpace(c) == c \in {" ", "\n"}

-----------------------------------------------------------------------------
(* Python's string operations *)

Min(S) == CHOOSE x \in S : \A y \in S : x <= y

Max(S) == CHOOSE x \in S : \A y \in S : x >= y

\* A slice index as Python normalises it: negative counts from the end,
\* and the result is clamped to 0..len.
SliceIndex(s, i) ==
    IF i < 0 THEN (IF Len(s) + i < 0 THEN 0 ELSE Len(s) + i)
    ELSE (IF i > Len(s) THEN Len(s) ELSE i)

\* s[a:b] with 0-based a, b.
PySlice(s, a, b) == SubSeq(s, SliceIndex(s, a) + 1, SliceIndex(s, b))

\* s[a:]
PyFrom(s, a) == SubSeq(s, SliceIndex(s, a) + 1, Len(s))

\* s.rfind(c) for a one-character c: the 0-based index of the last
\* occurrence, -1 when there is none.
rfind(s, c) ==
    LET at == {i \in 1..Len(s) : s[i] = c}
    IN IF at = {} THEN -1 ELSE Max(at) - 1

\* s.rstrip(): trailing whitespace removed.
RECURSIVE rstrip(_)
rstrip(s) ==
    IF Len(s) > 0 /\ IsSpace(s[Len(s)]) THEN rstrip(SubSeq(s, 1, Len(s) - 1))
    ELSE s

\* Whether old occurs in s at 1-based position k.
OccursAt(s, old, k) ==
    /\ k + Len(old) - 1 <= Len(s)
    /\ \A j \in 1..Len(old) : s[k + j - 1] = old[j]

\* s.replace(old, ''): every non-overlapping occurrence of the non-empty old,
\* found left to right, is removed.
RECURSIVE str_replace_empty(_, _)
str_replace_empty(s, old) ==
    IF Len(s) < Len(old) THEN s
    ELSE IF OccursAt(s, old, 1)
         THEN str_replace_empty(SubSeq(s, Len(old) + 1, Len(s)), old)
         ELSE <<s[1]>> \o str_replace_empty(Tail(s), old)

\* s.split('\n')
RECURSIVE split_lines(_)
split_lines(s) ==
    LET nl == {i \in 1..Len(s) : s[i] = "\n"}
    IN IF nl = {} THEN <<s>>
       ELSE <<SubSeq(s, 1, Min(nl) - 1)>>
            \o split_lines(SubSeq(s, Min(nl) + 1, Len(s)))

\* os.path.splitext (posixpath): the extension starts at the last dot of the
\* final segment, unless only dots precede it there.
splitext(p) ==
    LET sepIndex == rfind(p, "/")
        dotIndex == rfind(p, ".")
        \* 0-based indices of the final segment before the dot that are no dot
        nonDot   == {i \in (sepIndex + 1)..(dotIndex - 1) : p[i + 1] # "."}
    IN IF dotIndex > sepIndex /\ nonDot # {}
       THEN <<PySlice(p, 0, dotIndex), PyFrom(p, dotIndex)>>
       ELSE <<p, <<>> >>

-----------------------------------------------------------------------------
(* The regular expressions *)

\* A recognizer that knows the square bracket only.
IsOpenBracketOnly(c) == c = "["

\* (\[|\()
IsOpen(c) == c \in {"[", "("}

\* (\]|\))
IsClose(c) == c \in {"]", ")"}

\* [0-f]: the characters from code 48 ("0") to code 102 ("f").
Range0f == CodeRange(48, 102)

InRange0f(c) == c \in Range0f

\* [0-f] under re.I: a character matches when it or its other case is in
\* the range.
InClass0f(c) == InRange0f(c) \/ InRange0f(SwapCase(c))

\* (\[|\()([0-f]{8})(\]|\)) matches s at the 1-based position k.
TagAt(s, k) ==
    /\ k >= 1
    /\ k + 9 <= Len(s)
    /\ IsOpen(s[k])
    /\ \A j \in 1..8 : InClass0f(s[k + j])
    /\ IsClose(s[k + 9])

NoMatch == [found |-> FALSE, at |-> 0, group0 |-> <<>>, group2 |-> <<>>]

\* re.search(crc_regex, s, re.I) with crc_regex =
\* .*(\[|\()([0-f]{8})(\]|\))[^/]* : the search takes the first start
\* position from which a match exists, and there the greedy .* (which does
\* not cross a line feed) puts the bracket as far right as it can. The
\* trailing [^/]* may match nothing and the pattern is not anchored, so it
\* only extends the match. "at" is the position of the opening bracket.
crc_regex_search(s) ==
    LET tags     == {k \in 1..Len(s) : TagAt(s, k)}
        feeds    == {i \in 1..Len(s) : s[i] = "\n"}
        \* the first position from which .* reaches k
        from(k)  == Max({1} \cup {i + 1 : i \in {j \in feeds : j < k}})
        start    == Min({from(k) : k \in tags})
        k        == Max({t \in tags : from(t) = start})
        slash    == {i \in (k + 10)..Len(s) : s[i] = "/"}
        last     == IF slash = {} THEN Len(s) ELSE Min(slash) - 1
    IN IF tags = {} THEN NoMatch
       ELSE [found |-> TRUE, at |-> k,
             group0 |-> SubSeq(s, start, last),
             group2 |-> SubSeq(s, k + 1, k + 8)]

\* re.search of (\s?\[|\s?\()([0-f]{8})(\]|\)) under re.I: the leftmost
\* match, which takes one whitespace character before the bracket when
\* there is one.
remove_regex_search(s) ==
    LET starts == {p \in 1..Len(s) :
                      \/ TagAt(s, p)
                      \/ IsSpace(s[p]) /\ TagAt(s, p + 1)}
    IN IF starts = {} THEN NoMatch
       ELSE LET p == Min(starts)
                k == IF TagAt(s, p) THEN p ELSE p + 1
            IN [found |-> TRUE, at |-> k,
                group0 |-> SubSeq(s, p, k + 9),
                group2 |-> SubSeq(s, k + 1, k + 8)]

-----------------------------------------------------------------------------
(* CRC32 *)

\* The exclusive or of the n low bits of a and b.
RECURSIVE BitXor(_, _, _)
BitXor(a, b, n) ==
    IF n = 0 THEN 0
    ELSE ((a + b) % 2) + 2 * BitXor(a \div 2, b \div 2, n - 1)

\* A 32-bit register as its two 16-bit halves.
Xor32(c, hi, lo) == [hi |-> BitXor(c.hi, hi, 16), lo |-> BitXor(c.lo, lo, 16)]

ShiftRight1(c) ==
    [hi |-> c.hi \div 2, lo |-> (c.lo \div 2) + (c.hi % 2) * 32768]

\* One bit of the reflected CRC-32 (polynomial 0xEDB88320).
RECURSIVE CrcBits(_, _)
CrcBits(c, n) ==
    IF n = 0 THEN c
    ELSE CrcBits(IF c.lo % 2 = 1 THEN Xor32(ShiftRight1(c), 60856, 33568)
                 ELSE ShiftRight1(c),
                 n - 1)

\* The register after the bytes of data, one byte at a time (the test of
\* the register has it computed before the next byte is taken).
RECURSIVE CrcBytes(_, _)
CrcBytes(c, data) ==
    IF data = <<>> THEN c
    ELSE LET byte == CrcBits(Xor32(c, 0, Ord(Head(data))), 8)
         IN IF byte.lo >= 0 THEN CrcBytes(byte, Tail(data)) ELSE byte

\* binascii.crc32(data) & 0xFFFFFFFF
binascii_crc32(data) ==
    Xor32(CrcBytes([hi |-> 65535, lo |-> 65535], data), 65535, 65535)

HexDigits ==
    <<"0", "1", "2", "3", "4", "5", "6", "7", "8", "9", "A", "B", "C", "D", "E", "F">>

\* "%04X" % n for n < 2^16
Hex4(n) ==
    << HexDigits[((n \div 4096) % 16) + 1], HexDigits[((n \div 256) % 16) + 1],
       HexDigits[((n \div 16) % 16) + 1], HexDigits[(n % 16) + 1] >>

\* "%08X" % c
Hex8(c) == Hex4(c.hi) \o Hex4(c.lo)

-----------------------------------------------------------------------------
(* The file system *)

IsFile(files, p) == p \in DOMAIN files

\* The directory a path lies in; <<>> is the working directory.
Parent(p) == PySlice(p, 0, IF rfind(p, "/") < 0 THEN 0 ELSE rfind(p, "/"))

DirExists(ds, d) == d = <<>> \/ d \in ds

\* The error of reaching a path that is no existing regular file.
PathError(files, ds, p) ==
    IF p \in ds THEN "IsADirectoryError"
    ELSE IF Parent(p) \in DOMAIN files THEN "NotADirectoryError"
    ELSE "FileNotFoundError"

\* open(p, 'rb'): the exception raised, "none" for a regular file.
OpenError(files, ds, p) ==
    IF IsFile(files, p) THEN "none" ELSE PathError(files, ds, p)

\* The contents of the data files of the model.
ContentA == <<"a">>

ContentB == <<"b">>

\* binascii.crc32 of the data files' contents, computed once.
KnownCrc32 ==
    (ContentA :> binascii_crc32(ContentA)) @@ (ContentB :> binascii_crc32(ContentB))

\* "%08X" % (binascii.crc32(data) & 0xFFFFFFFF)
Crc32Hex(data) ==
    Hex8(IF data \in DOMAIN KnownCrc32 THEN KnownCrc32[data]
         ELSE binascii_crc32(data))

\* CRC32_from_file(file) on the file system (files, ds).
CRC32_from_file(files, ds, file) ==
    IF OpenError(files, ds, file) = "none"
    THEN [exc |-> "none", val |-> Crc32Hex(files[file])]
    ELSE [exc |-> OpenError(files, ds, file), val |-> <<>>]

\* Whether q is p or lies under the directory p.
Under(p, q) == q = p \/ (Len(q) > Len(p) /\ OccursAt(q, p \o <<"/">>, 1))

\* q with its leading p replaced by r.
Rebase(p, r, q) == r \o SubSeq(q, Len(p) + 1, Len(q))

\* os.rename(src, dst) on POSIX: the exception raised ("none" when it
\* succeeds) and the file system afterwards. A regular file replaces a
\* regular file that is in its way; a directory moves with what it holds.
os_rename(files, ds, src, dst) ==
    LET fail(e) == [exc |-> e, fs |-> files, dirs |-> ds]
    IN IF src = dst /\ (IsFile(files, src) \/ src \in ds) THEN fail("none")
       ELSE IF IsFile(files, src) THEN
            IF dst \in ds THEN fail("IsADirectoryError")
            ELSE IF ~DirExists(ds, Parent(dst)) \/ dst = <<>>
                 THEN fail(IF Parent(dst) \in DOMAIN files
                           THEN "NotADirectoryError" ELSE "FileNotFoundError")
            ELSE [exc  |-> "none",
                  fs   |-> [q \in (DOMAIN files \ {src}) \cup {dst} |->
                               IF q = dst THEN files[src] ELSE files[q]],
                  dirs |-> ds]
       ELSE IF src \in ds THEN
            IF IsFile(files, dst) THEN fail("NotADirectoryError")
            ELSE IF ~DirExists(ds, Parent(dst)) \/ dst = <<>>
                 THEN fail("FileNotFoundError")
            ELSE IF Under(src, dst) THEN fail("OSError")
            ELSE IF dst \in ds /\ \E q \in (DOMAIN files \cup ds) :
                                     q # dst /\ Under(dst, q)
                 THEN fail("OSError")
            ELSE LET move(q) == IF Under(src, q) THEN Rebase(src, dst, q) ELSE q
                     kept    == {q \in DOMAIN files : ~Under(src, q)}
                     moved   == {q \in DOMAIN files : Under(src, q)}
                 IN [exc  |-> "none",
                     fs   |-> [q \in kept \cup {move(m) : m \in moved} |->
                                  IF q \in kept THEN files[q]
                                  ELSE files[CHOOSE m \in moved : move(m) = q]],
                     dirs |-> {move(d) : d \in ds}]
       ELSE fail(IF src = <<>> THEN "FileNotFoundError"
                 ELSE PathError(files, ds, src))

-----------------------------------------------------------------------------
(* The functions of crc32.py, each as the outcome of one call *)

None == [kind |-> "None", val |-> <<>>]

Str(s) == [kind |-> "str", val |-> s]

NoOutput == [status |-> "", current |-> <<>>]

\* The outcome of a call: the file system afterwards, the value returned,
\* the exception that escaped and the status printed.
Outcome(files, ds, r, e, status, current) ==
    [fs |-> files, dirs |-> ds, ret |-> r, exc |-> e,
     out |-> [status |-> status, current |-> current]]

SfvExt == <<".", "s", "f", "v">>

\* verify_in_filename(files)
verify_in_filename_result(files) ==
    LET filename_crc == crc_regex_search(files)
        current      == CRC32_from_file(fs, dirs, files)
    IN IF ~filename_crc.found
       THEN \* AttributeError: the handler computes the CRC32 again, outside
            \* the try block, so an exception it raises escapes
            IF current.exc = "none"
            THEN Outcome(fs, dirs, None, "none", "No CRC32 in filename", current.val)
            ELSE Outcome(fs, dirs, None, current.exc, "", <<>>)
       ELSE IF current.exc = "FileNotFoundError"
            THEN Outcome(fs, dirs, None, "none", "No such file or directory", <<>>)
       ELSE IF current.exc # "none"
            THEN Outcome(fs, dirs, None, current.exc, "", <<>>)
       ELSE IF str_upper(filename_crc.group2) = current.val
            THEN Outcome(fs, dirs, None, "none", "File Ok", current.val)
            ELSE Outcome(fs, dirs, None, "none", "File Corrupt", current.val)

\* '{} [{}]{}'.format(basename, crc, ext)
TaggedName(basename, crc, ext) == basename \o <<" ", "[">> \o crc \o <<"]">> \o ext

\* append_to_filename(file_in)
append_to_filename_result(file_in) ==
    LET ext              == splitext(file_in)[2]
        already_appended == crc_regex_search(file_in)
        crc              == CRC32_from_file(fs, dirs, file_in)
        new_filename     == TaggedName(splitext(file_in)[1], crc.val, ext)
        renamed          == os_rename(fs, dirs, file_in, new_filename)
    IN IF ext = SfvExt
       THEN Outcome(fs, dirs, Str(file_in), "none", "", <<>>)
       ELSE IF already_appended.found
            THEN Outcome(fs, dirs, Str(file_in), "none",
                         "already contains a CRC32 in file name.", <<>>)
       ELSE IF crc.exc = "FileNotFoundError"
            THEN Outcome(fs, dirs, None, "none", "No such file or directory", <<>>)
       ELSE IF crc.exc # "none"
            THEN Outcome(fs, dirs, None, crc.exc, "", <<>>)
       ELSE IF renamed.exc = "FileNotFoundError"
            THEN Outcome(fs, dirs, None, "none", "No such file or directory", <<>>)
       ELSE IF renamed.exc # "none"
            THEN Outcome(fs, dirs, None, renamed.exc, "", <<>>)
       ELSE Outcome(renamed.fs, renamed.dirs, Str(new_filename), "none",
                    "Done", crc.val)

\* remove_from_filename(file_in)
remove_from_filename_result(file_in) ==
    LET filename_crc == remove_regex_search(file_in)
        new_filename == str_replace_empty(file_in, filename_crc.group0)
        renamed      == os_rename(fs, dirs, file_in, new_filename)
    IN IF ~filename_crc.found
       THEN Outcome(fs, dirs, None, "none", "has no CRC32 to remove", <<>>)
       ELSE IF renamed.exc # "none"
            THEN Outcome(fs, dirs, None, renamed.exc, "", <<>>)
       ELSE Outcome(renamed.fs, renamed.dirs, None, "none", "", <<>>)

\* The counters verify_sfv_file prints; printed is FALSE when an exception
\* escaped before the summary.
NoSummary ==
    [printed |-> FALSE, total |-> 0, ok |-> 0, corrupt |-> 0, not_found |-> 0]

\* The fields cut at the first space of the line instead of the last.
record_fields_at_first_space(line) ==
    LET sp == Min({i \in 1..Len(line) : line[i] = " "} \cup {Len(line) + 1})
    IN [crc      |-> SubSeq(line, sp + 1, Len(line)),
        cur_file |-> SubSeq(line, 1, sp - 1)]

\* The two fields verify_sfv_file cuts out of a line: the text after the
\* last space and the line without its last nine characters.
record_fields(line) ==
    [crc      |-> PyFrom(line, rfind(line, " ") + 1),
     cur_file |-> PySlice(line, 0, -9)]

\* The loop of verify_sfv_file over the lines from the i-th on; acc holds
\* the counters, the paths opened so far and the exception that escaped.
RECURSIVE verify_sfv_lines(_, _, _)
verify_sfv_lines(text, i, acc) ==
    IF i > Len(text) \/ acc.exc # "none" THEN acc
    ELSE LET line     == rstrip(text[i])
             crc      == record_fields(line).crc
             cur_file == record_fields(line).cur_file
             calc_crc == CRC32_from_file(fs, dirs, cur_file)
             counted  == [acc EXCEPT !.total = @ + 1,
                                     !.opened = Append(@, cur_file)]
         IN IF Len(line) # 0 /\ line[1] # ";"
            THEN verify_sfv_lines(text, i + 1,
                   IF calc_crc.exc = "none"
                   THEN IF str_upper(calc_crc.val) = str_upper(crc)
                        THEN [counted EXCEPT !.ok = @ + 1]
                        ELSE [counted EXCEPT !.corrupt = @ + 1]
                   ELSE IF calc_crc.exc = "FileNotFoundError"
                        THEN [counted EXCEPT !.not_found = @ + 1]
                        ELSE [counted EXCEPT !.exc = calc_crc.exc])
            ELSE verify_sfv_lines(text, i + 1, acc)

\* verify_sfv_file(file_in): the counters at the end of the loop, the paths
\* opened and the exception that escaped.
verify_sfv_file_result(file_in) ==
    LET start == [total |-> 0, ok |-> 0, corrupt |-> 0, not_found |-> 0,
                  opened |-> <<>>, exc |-> "none"]
    IN IF OpenError(fs, dirs, file_in) # "none"
       THEN [start EXCEPT !.exc = OpenError(fs, dirs, file_in)]
       ELSE verify_sfv_lines(split_lines(fs[file_in]), 1, start)

\* The header create_sfv_file writes, up to the time stamp and after it:
\* '; Created by SFV Master 1.2{1} {0}{1} {2}{1} {3}{1}\n' with {1} = '\n;'.
HeadBeforeTime ==
    <<";", " ", "C", "r", "e", "a", "t", "e", "d", " ", "b", "y", " ", "S",
      "F", "V", " ", "M", "a", "s", "t", "e", "r", " ", "1", ".", "2",
      "\n", ";", " ">>

HeadAfterTime ==
    <<"\n", ";", " ", "c", "h", "a", "r", "s", "e", "t", "=", "U", "T",
      "F", "-", "8", "\n", ";", " ", "H", "a", "s", "h", " ", "t", "y",
      "p", "e", ":", " ", "C", "R", "C", "-", "3", "2", "\n", ";", "\n">>

\* A header whose first line is the time stamp, with no semicolon before it.
head_without_comment_mark(ctime) == ctime \o HeadAfterTime

head(ctime) == HeadBeforeTime \o ctime \o HeadAfterTime

\* open(p, mode='w+'): the exception raised, "none" when the file is opened
\* (created, or emptied when it exists).
OpenWriteError(files, ds, p) ==
    IF p \in ds THEN "IsADirectoryError"
    ELSE IF p = <<>> THEN "FileNotFoundError"
    ELSE IF Parent(p) \in DOMAIN files THEN "NotADirectoryError"
    ELSE IF ~DirExists(ds, Parent(p)) THEN "FileNotFoundError"
    ELSE "none"

\* The loop of create_sfv_file over in_files from the i-th on, reading the
\* file system files; acc holds the text written so far and the exception
\* that escaped.
RECURSIVE create_sfv_lines(_, _, _, _)
create_sfv_lines(files, in_files, i, acc) ==
    IF i > Len(in_files) \/ acc.exc # "none" THEN acc
    ELSE LET fname    == in_files[i]
             ext      == splitext(fname)[2]
             file_crc == CRC32_from_file(files, dirs, fname)
         IN create_sfv_lines(files, in_files, i + 1,
              IF ext = SfvExt THEN acc
              ELSE IF file_crc.exc = "none"
                   THEN [acc EXCEPT !.buf = @ \o fname \o <<" ">>
                                                \o file_crc.val \o <<"\n">>]
              ELSE IF file_crc.exc = "IsADirectoryError" THEN acc
              ELSE [acc EXCEPT !.exc = file_crc.exc])

\* create_sfv_file(sfv_filename, in_files) at the time ctime: the file
\* system afterwards, the value returned and the exception that escaped.
\* The file is empty on disk while the loop runs, and holds what was written
\* when it is closed, also when an exception leaves the with block.
create_sfv_file_result(sfv_filename, in_files, ctime) ==
    LET emptied == [q \in DOMAIN fs \cup {sfv_filename} |->
                       IF q = sfv_filename THEN <<>> ELSE fs[q]]
        written == create_sfv_lines(emptied, in_files, 1,
                                    [buf |-> head(ctime), exc |-> "none"])
    IN IF OpenWriteError(fs, dirs, sfv_filename) # "none"
       THEN [fs |-> fs, ret |-> None,
             exc |-> OpenWriteError(fs, dirs, sfv_filename)]
       ELSE [fs  |-> [emptied EXCEPT ![sfv_filename] = written.buf],
             ret |-> None,
             exc |-> written.exc]

-----------------------------------------------------------------------------
(* The calls *)

\* What a call leaves in the variables that describe it.
CallEffect(op, p, r) ==
    /\ lastOp' = op
    /\ arg' = p
    /\ fs' = r.fs
    /\ dirs' = r.dirs
    /\ ret' = r.ret
    /\ exc' = r.exc
    /\ out' = r.out
    /\ summary' = NoSummary
    /\ opened' = <<>>

\* A call made outside a run of cli.
Called(op, p, r) == CallEffect(op, p, r) /\ UNCHANGED cliVars

\* Paths of files that do not exist: one with a bracketed run that has a
\* character outside the range 0-f, one with a tag.
MissingPaths ==
    { <<"z", "z", "[", "a", "b", "c", "-", "1", "2", "3", "4", "]">>,
      <<"z", "z", "[", "D", "E", "A", "D", "B", "E", "E", "F", "]">> }

\* The paths a caller may pass: the files and directories that exist and
\* paths that do not.
Args == DOMAIN fs \cup dirs \cup MissingPaths

verify_in_filename ==
    \E p \in Args : Called("verify_in_filename", p, verify_in_filename_result(p))

append_to_filename ==
    \E p \in Args : Called("append_to_filename", p, append_to_filename_result(p))

remove_from_filename ==
    \E p \in Args : Called("remove_from_filename", p, remove_from_filename_result(p))

\* What a call of verify_sfv_file leaves in the variables.
SfvCallEffect(p) ==
    LET r == verify_sfv_file_result(p)
    IN /\ lastOp' = "verify_sfv_file"
       /\ arg' = p
       /\ ret' = None
       /\ exc' = r.exc
       /\ out' = NoOutput
       /\ summary' = IF r.exc = "none"
                     THEN [printed |-> TRUE, total |-> r.total, ok |-> r.ok,
                           corrupt |-> r.corrupt, not_found |-> r.not_found]
                     ELSE NoSummary
       /\ opened' = r.opened
       /\ UNCHANGED <<fs, dirs>>

verify_sfv_file == \E p \in Args : SfvCallEffect(p) /\ UNCHANGED cliVars

\* What a call of create_sfv_file leaves in the variables.
CreateCallEffect(sfv_filename, in_files, ctime) ==
    LET r == create_sfv_file_result(sfv_filename, in_files, ctime)
    IN /\ lastOp' = "create_sfv_file"
       /\ arg' = sfv_filename
       /\ fs' = r.fs
       /\ ret' = r.ret
       /\ exc' = r.exc
       /\ out' = NoOutput
       /\ summary' = NoSummary
       /\ opened' = <<>>
       /\ UNCHANGED dirs

-----------------------------------------------------------------------------
(* The initial file systems *)

\* The number of tag-like runs a file name of the model carries at most.
MaxTags == 2

\* The number of lines an SFV file of the model holds at most.
MaxLines == 2

RECURSIVE Flatten(_)
Flatten(ss) == IF ss = <<>> THEN <<>> ELSE Head(ss) \o Flatten(Tail(ss))

\* What may follow the stem of a name: nothing, a tag in brackets, a
\* lower-case tag in parentheses after a space (the CRC32 of ContentA), and a
\* run of eight characters of the range 0-f that are not all hexadecimal
\* digits.
TagPool ==
    { <<>>,
      <<"[", "D", "E", "A", "D", "B", "E", "E", "F", "]">>,
      <<" ", "(", "e", "8", "b", "7", "b", "e", "4", "3", ")">>,
      <<"[", "t", "e", "s", "t", "_", "r", "u", "n", "]">> }

\* The file lies in the working directory or in a directory whose name
\* carries a tag.
DirPool ==
    { <<>>,
      <<"d", "[", "D", "E", "A", "D", "B", "E", "E", "F", "]", "/">> }

ExtPool == { <<".", "t", "x", "t">>, SfvExt }

Names ==
    { dir \o <<"a">> \o Flatten(t) \o ext :
        dir \in DirPool, t \in [1..MaxTags -> TagPool], ext \in ExtPool }

\* The directories beside the one the file lies in: none, or the directory
\* named like the file's without its tag.
DirChoices(name) ==
    IF Parent(name) = <<>> THEN {{}}
    ELSE {{Parent(name)}, {Parent(name), <<"d">>}}

\* The name a rename would give the file: the one remove_from_filename
\* computes when it finds a tag, the one append_to_filename computes
\* otherwise.
RenameTargets(name) ==
    IF remove_regex_search(name).found
    THEN {str_replace_empty(name, remove_regex_search(name).group0)}
    ELSE {TaggedName(splitext(name)[1], Crc32Hex(ContentA), splitext(name)[2])}

\* A second file may lie where a rename of the first would put it.
OccupantChoices(name, ds) ==
    {{}} \cup {{t} : t \in {u \in RenameTargets(name) \ {name} :
                              /\ DirExists(ds, Parent(u))
                              /\ u \notin ds /\ u # <<>>}}

NoCall ==
    /\ lastOp = "none"
    /\ arg = <<>>
    /\ ret = None
    /\ exc = "none"
    /\ out = NoOutput
    /\ summary = NoSummary
    /\ opened = <<>>

NoOptions == [verify |-> FALSE, append |-> FALSE, sfv |-> <<>>, checksfv |-> FALSE]

\* No run of cli is under way.
NoRun ==
    /\ options = NoOptions
    /\ filelist = <<>>
    /\ mode = "idle"
    /\ idx = 0
    /\ reports = <<>>

Init ==
    /\ \E name \in Names : \E ds \in DirChoices(name) :
         \E occ \in OccupantChoices(name, ds) :
            /\ fs = [q \in {name} \cup occ |->
                        IF q = name THEN ContentA ELSE ContentB]
            /\ dirs = ds
    /\ NoCall
    /\ NoRun

Next == verify_in_filename \/ append_to_filename \/ remove_from_filename

Spec == Init /\ [][Next]_vars

\* The lines an SFV file of the model is made of.
LinePool ==
    { <<"a", ".", "t", "x", "t", " ", "E", "8", "B", "7", "B", "E", "4", "3">>,
      <<"a", ".", "t", "x", "t", " ", "e", "8", "b", "7", "b", "e", "4", "3">>,
      <<"a", ".", "t", "x", "t", " ", "D", "E", "A", "D", "B", "E", "E", "F">>,
      <<"b", " ", "c", ".", "t", "x", "t", " ", "7", "1", "B", "E", "E", "F", "F", "9">>,
      <<"z", "z", " ", "0", "0", "0", "0", "0", "0", "0", "0">>,
      <<"d", " ", "0", "0", "0", "0", "0", "0", "0", "0">>,
      <<";", " ", "c">>,
      <<>>,
      <<"i", "n", "v", "a", "l", "i", "d", "l", "i", "n", "e">>,
      <<"a", ".", "t", "x", "t", " ", "X", "Y", "Z">>,
      <<"a", ".", "t", "x", "t", "_", "E", "8", "B", "7", "B", "E", "4", "3">> }

SfvPath == <<"x", ".", "s", "f", "v">>

\* The text of an SFV file: each line ends with a line feed.
SfvText(ls) == Flatten([i \in 1..Len(ls) |-> ls[i] \o <<"\n">>])

SfvTexts ==
    UNION { {SfvText(ls) : ls \in [1..n -> LinePool]} : n \in 0..MaxLines }

\* An SFV file beside the files a.txt and "b c.txt" and the directory d.
InitSfv ==
    /\ \E text \in SfvTexts :
         fs = [q \in {SfvPath, <<"a", ".", "t", "x", "t">>,
                      <<"b", " ", "c", ".", "t", "x", "t">>} |->
                  IF q = SfvPath THEN text
                  ELSE IF q = <<"a", ".", "t", "x", "t">> THEN ContentA
                  ELSE ContentB]
    /\ dirs = {<<"d">>}
    /\ NoCall
    /\ NoRun

NextSfv == verify_sfv_file

SpecSfv == InitSfv /\ [][NextSfv]_vars

-----------------------------------------------------------------------------
(* A run of cli (zencrc_cli.py), without --recurse *)

\* The modes cli goes through, in the order of its if statements.
AfterMode(m) ==
    CASE m = "verify"   -> "append"
      [] m = "append"   -> "sfv"
      [] m = "sfv"      -> "checksfv"
      [] m = "checksfv" -> "done"

\* Whether the options ask for the mode.
Requested(m) ==
    CASE m = "verify"   -> options.verify
      [] m = "append"   -> options.append
      [] m = "sfv"      -> options.sfv # <<>>
      [] m = "checksfv" -> options.checksfv
      [] OTHER          -> FALSE

\* What a run reports for one file.
Report(m, filepath, status) == [mode |-> m, path |-> filepath, status |-> status]

\* The run stays in its loop and goes on with the next file.
Continue == mode' = mode /\ idx' = idx + 1

\* An exception the mode's try statement catches ends the loop of the mode.
LeaveLoop == mode' = AfterMode(mode) /\ idx' = 1

\* An exception nothing catches ends the run.
Crash == mode' = "crashed" /\ idx' = idx

\* if verify: one pass of the loop over filelist.
cli_verify ==
    /\ mode = "verify" /\ options.verify /\ idx <= Len(filelist)
    /\ LET filepath == filelist[idx]
           r        == verify_in_filename_result(filepath)
       IN IF filepath \in dirs
          THEN /\ Continue
               /\ UNCHANGED <<fs, dirs, lastOp, arg, ret, exc, out, summary,
                              opened, reports>>
          ELSE /\ CallEffect("verify_in_filename", filepath, r)
               /\ IF r.exc = "none"
                  THEN /\ Continue
                       /\ reports' = Append(reports,
                                       Report(mode, filepath, r.out.status))
                  ELSE IF r.exc = "FileNotFoundError"
                  THEN /\ LeaveLoop
                       /\ reports' = Append(reports,
                                       Report(mode, filepath,
                                              "No such file or directory"))
                  ELSE Crash /\ UNCHANGED reports
    /\ UNCHANGED <<options, filelist>>

\* if append: one pass of the loop over filelist.
cli_append ==
    /\ mode = "append" /\ options.append /\ idx <= Len(filelist)
    /\ LET filepath == filelist[idx]
           r        == append_to_filename_result(filepath)
       IN IF filepath \in dirs
          THEN /\ Continue
               /\ UNCHANGED <<fs, dirs, lastOp, arg, ret, exc, out, summary,
                              opened, reports>>
          ELSE /\ CallEffect("append_to_filename", filepath, r)
               /\ IF r.exc = "none"
                  THEN /\ Continue
                       /\ reports' = Append(reports,
                                       Report(mode, filepath, r.out.status))
                  ELSE IF r.exc = "FileNotFoundError"
                  THEN LeaveLoop /\ UNCHANGED reports
                  ELSE Crash /\ UNCHANGED reports
    /\ UNCHANGED <<options, filelist>>

\* The times at which an SFV file of the model is created
\* ('%A, %d %B %Y @ %I:%M %p').
CTimes ==
    { <<"T", "u", "e", "s", "d", "a", "y", ",", " ", "0", "3", " ",
        "N", "o", "v", "e", "m", "b", "e", "r", " ", "2", "0", "2", "6", " ",
        "@", " ", "0", "9", ":", "5", "3", " ", "P", "M">> }

\* if sfv: create_sfv_file(sfv, filelist).
cli_sfv ==
    /\ mode = "sfv" /\ options.sfv # <<>>
    /\ \E ctime \in CTimes :
         /\ CreateCallEffect(options.sfv, filelist, ctime)
         /\ IF create_sfv_file_result(options.sfv, filelist, ctime).exc = "none"
            THEN /\ LeaveLoop
                 /\ reports' = Append(reports, Report(mode, options.sfv, "Done"))
            ELSE Crash /\ UNCHANGED reports
    /\ UNCHANGED <<options, filelist>>

\* if checksfv: one pass of the loop over filelist.
cli_checksfv ==
    /\ mode = "checksfv" /\ options.checksfv /\ idx <= Len(filelist)
    /\ LET filepath == filelist[idx]
           r        == verify_sfv_file_result(filepath)
       IN /\ SfvCallEffect(filepath)
          /\ IF r.exc = "none"
             THEN /\ Continue
                  /\ reports' = Append(reports, Report(mode, filepath, "Summary"))
             ELSE IF r.exc = "IsADirectoryError"
             THEN LeaveLoop /\ UNCHANGED reports
             ELSE Crash /\ UNCHANGED reports
    /\ UNCHANGED <<options, filelist>>

\* The mode was not asked for, or its loop has gone through filelist.
cli_next_mode ==
    /\ mode \in {"verify", "append", "sfv", "checksfv"}
    /\ ~Requested(mode) \/ (mode # "sfv" /\ idx > Len(filelist))
    /\ LeaveLoop
    /\ UNCHANGED <<fs, dirs, lastOp, arg, ret, exc, out, summary, opened,
                   options, filelist, reports>>

\* The number of files a file list of the model holds at most.
MaxFiles == 2

FileA == <<"a", ".", "t", "x", "t">>

FileB == <<"b", ".", "t", "x", "t">>

\* The paths a file list of a run is made of: two files, a path of no file
\* without a tag and one with a tag, a directory, an SFV file and a path of
\* no file that ends in .sfv.
CliPaths ==
    { FileA, FileB,
      <<"z", "z">>,
      <<"z", "z", "[", "D", "E", "A", "D", "B", "E", "E", "F", "]">>,
      <<"d">>,
      SfvPath,
      <<"y", ".", "s", "f", "v">> }

\* The file lists of at most n paths of the set paths.
FileLists(paths, n) == UNION { [1..k -> paths] : k \in 0..n }

\* The SFV file --sfv names.
SfvOut == <<"o", ".", "s", "f", "v">>

OptionPool ==
    [verify : BOOLEAN, append : BOOLEAN, sfv : {<<>>, SfvOut}, checksfv : BOOLEAN]

\* The start of a run: two files, a directory and an SFV file that lists the
\* first file.
InitCli ==
    /\ fs = (FileA :> ContentA) @@ (FileB :> ContentB)
              @@ (SfvPath :> <<"a", ".", "t", "x", "t", " ",
                                "E", "8", "B", "7", "B", "E", "4", "3", "\n">>)
    /\ dirs = {<<"d">>}
    /\ NoCall
    /\ options \in OptionPool
    /\ filelist \in FileLists(CliPaths, MaxFiles)
    /\ mode = "verify"
    /\ idx = 1
    /\ reports = <<>>

NextCli ==
    cli_verify \/ cli_append \/ cli_sfv \/ cli_checksfv \/ cli_next_mode

SpecCli == InitCli /\ [][NextCli]_vars

FileBC == <<"b", " ", "c", ".", "t", "x", "t">>

FileSemicolon == <<";", "c">>

FileLineFeed == <<"e", "\n", "f">>

\* The paths create_sfv_file is handed: the files and the directory.
CreatePaths == { FileA, FileBC, FileSemicolon, FileLineFeed, <<"d">> }

\* create_sfv_file called on its own, for the SFV file SfvPath.
create_sfv_file ==
    \E in_files \in FileLists(CreatePaths, MaxFiles) : \E ctime \in CTimes :
        /\ CreateCallEffect(SfvPath, in_files, ctime)
        /\ filelist' = in_files
        /\ UNCHANGED <<options, mode, idx, reports>>

\* Two files, one with a space in its name, a file whose name begins with a
\* semicolon, a file whose name holds a line feed, and the directory d.
InitCreate ==
    /\ fs = (FileA :> ContentA) @@ (FileBC :> ContentB)
              @@ (FileSemicolon :> ContentB) @@ (FileLineFeed :> ContentA)
    /\ dirs = {<<"d">>}
    /\ NoCall
    /\ NoRun

NextCreate == create_sfv_file \/ verify_sfv_file

SpecCreate == InitCreate /\ [][NextCreate]_vars

-----------------------------------------------------------------------------
(* The vocabulary of the specification, in which the claims are stated *)

HexDigitChars ==
    { "0", "1", "2", "3", "4", "5", "6", "7", "8", "9",
      "a", "b", "c", "d", "e", "f", "A", "B", "C", "D", "E", "F" }

\* A tag as the specification defines it: eight hexadecimal digits between
\* an opening and a closing bracket or parenthesis, at position k of s.
SpecTagAt(s, k) ==
    /\ k >= 1
    /\ k + 9 <= Len(s)
    /\ s[k] \in {"[", "("}
    /\ \A j \in 1..8 : s[k + j] \in HexDigitChars
    /\ s[k + 9] \in {"]", ")"}

\* The positions of the tags anywhere in a path.
SpecTagsInPath(p) == {k \in 1..Len(p) : SpecTagAt(p, k)}

\* The positions of the tags in the final segment of a path.
SpecTagsInName(p) == {k \in SpecTagsInPath(p) : k >= rfind(p, "/") + 2}

\* has_tag of the specification: the final segment carries a tag.
SpecHasTag(p) == SpecTagsInName(p) # {}

\* parse_line of the specification: no record for a line that is empty
\* after trimming, starts with ";", has no space, or whose final token is
\* not exactly eight hexadecimal digits; otherwise the path before the last
\* space and the checksum after it.
parse_line(line) ==
    LET l     == rstrip(line)
        sp    == rfind(l, " ")
        token == PyFrom(l, sp + 1)
    IN IF \/ l = <<>>
          \/ l[1] = ";"
          \/ sp < 0
          \/ Len(token) # 8
          \/ \E i \in 1..Len(token) : token[i] \notin HexDigitChars
       THEN [valid |-> FALSE, path |-> <<>>, crc |-> <<>>]
       ELSE [valid |-> TRUE, path |-> PySlice(l, 0, sp), crc |-> token]

\* The records of an SFV text, by line number.
Records(text) ==
    LET ls == split_lines(text)
    IN [i \in {j \in 1..Len(ls) : parse_line(ls[j]).valid} |-> parse_line(ls[i])]

\* The summary the specification asks of verify_file for the SFV file p.
ExpectedSummary(p) ==
    LET rs       == Records(fs[p])
        exists(i) == IsFile(fs, rs[i].path)
        match(i)  == Crc32Hex(fs[rs[i].path]) = str_upper(rs[i].crc)
    IN [printed   |-> TRUE,
        total     |-> Cardinality(DOMAIN rs),
        ok        |-> Cardinality({i \in DOMAIN rs : exists(i) /\ match(i)}),
        corrupt   |-> Cardinality({i \in DOMAIN rs : exists(i) /\ ~match(i)}),
        not_found |-> Cardinality({i \in DOMAIN rs :
                                      ~exists(i) /\ rs[i].path \notin dirs})]

\* A value Python takes for true: a non-empty string.
Truthy(r) == r.kind = "str" /\ r.val # <<>>

\* The call just made treated its argument as carrying a tag.
TreatedAsTagged ==
    \/ /\ lastOp = "verify_in_filename"
       /\ out.status \in {"File Ok", "File Corrupt", "No such file or directory"}
    \/ /\ lastOp = "append_to_filename"
       /\ out.status = "already contains a CRC32 in file name."
    \/ /\ lastOp = "remove_from_filename"
       /\ out.status # "has no CRC32 to remove"

-----------------------------------------------------------------------------
(* The claims *)

\* C1: verify_sfv_file on an SFV file prints a summary in which total is the
\* number of valid records, ok the number of records whose file has the
\* expected CRC32 (compared without regard to case), corrupt the number
\* whose file exists with another CRC32 and not_found the number whose file
\* does not exist.
C1_SummaryCountsValidRecords ==
    (lastOp = "verify_sfv_file" /\ arg = SfvPath) => summary = ExpectedSummary(arg)

\* C2: a line of an SFV file that yields no record (empty after trimming, a
\* comment, without a space, or with a final token that is not eight
\* hexadecimal digits) increments no counter and has no file opened for it:
\* the counters do not exceed the number of records and every path opened is
\* the path of a record.
C2_MalformedLinesSkipped ==
    (lastOp = "verify_sfv_file" /\ arg = SfvPath) =>
        LET rs == Records(fs[arg])
        IN /\ summary.total <= Cardinality(DOMAIN rs)
           /\ summary.ok + summary.corrupt + summary.not_found
                 <= Cardinality(DOMAIN rs)
           /\ Len(opened) <= Cardinality(DOMAIN rs)
           /\ \A i \in 1..Len(opened) :
                 \E j \in DOMAIN rs : rs[j].path = opened[i]

\* C3: a path none of whose bracketed runs of eight characters consists of
\* hexadecimal digits only is treated as untagged by verify_in_filename,
\* append_to_filename and remove_from_filename.
C3_OnlyHexTagsRecognized ==
    (lastOp # "none" /\ SpecTagsInPath(arg) = {}) => ~TreatedAsTagged

\* C4: when the name of an existing file carries more than one tag,
\* verify_in_filename compares the first (leftmost) one with the CRC32 of the
\* file.
C4_FirstTagCompared ==
    ( /\ lastOp = "verify_in_filename"
      /\ IsFile(fs, arg)
      /\ Cardinality(SpecTagsInName(arg)) > 1 ) =>
        LET k == Min(SpecTagsInName(arg))
        IN out.status = IF str_upper(SubSeq(arg, k + 1, k + 8)) = Crc32Hex(fs[arg])
                        THEN "File Ok" ELSE "File Corrupt"

\* The final segment of a path holds no bracket or parenthesis.
NoBracketInName(p) ==
    \A i \in (rfind(p, "/") + 2)..Len(p) : p[i] \notin {"[", "(", "]", ")"}

\* C5: a tag counts only in the final segment of a path. Stated for the
\* existing files whose final segment holds no bracket at all, where only a
\* directory's tag can be found: verify_in_filename reports that the name has
\* no tag, and append_to_filename tags the file unless it is an .sfv file.
C5_TagOnlyInFinalSegment ==
    [][ ( /\ lastOp' \in {"verify_in_filename", "append_to_filename"}
          /\ IsFile(fs, arg')
          /\ NoBracketInName(arg') ) =>
        /\ lastOp' = "verify_in_filename" => out'.status = "No CRC32 in filename"
        /\ (lastOp' = "append_to_filename" /\ splitext(arg')[2] # SfvExt) =>
              (out'.status = "Done" /\ ~IsFile(fs', arg')) ]_vars

\* C6: append_to_filename renames an existing file whose name has no tag and
\* whose extension is not .sfv to "{stem} [{CRC32}]{ext}", its content
\* kept, and the tag found in the new name is the CRC32 of the content.
C6_AppendTagsAndRoundTrips ==
    [][ ( /\ lastOp' = "append_to_filename"
          /\ IsFile(fs, arg')
          /\ ~SpecHasTag(arg')
          /\ splitext(arg')[2] # SfvExt ) =>
        LET new == TaggedName(splitext(arg')[1], Crc32Hex(fs[arg']),
                              splitext(arg')[2])
        IN /\ IsFile(fs', new)
           /\ fs'[new] = fs[arg']
           /\ ~IsFile(fs', arg')
           /\ ret' = Str(new)
           /\ crc_regex_search(new).found
           /\ str_upper(crc_regex_search(new).group2) = Crc32Hex(fs[arg']) ]_vars

\* The last call was an append_to_filename that tagged and renamed its file.
AppendSucceeded == lastOp = "append_to_filename" /\ out.status = "Done"

\* C7: append_to_filename is idempotent in effect: called on the path a
\* successful append_to_filename returned, or on any path whose name carries
\* a tag, it renames nothing and leaves every file name and content as it was.
C7_AppendIdempotent ==
    [][ ( /\ lastOp' = "append_to_filename"
          /\ \/ SpecHasTag(arg')
             \/ AppendSucceeded /\ arg' = ret.val ) =>
        (fs' = fs /\ dirs' = dirs /\ out'.status # "Done") ]_vars

\* C7 witness: append_to_filename has been called on a file that carries the
\* tag " [CRC32]" of its own content, as a successful append leaves it, and
\* reported the name as already tagged.
C7_Witness ==
    /\ lastOp = "append_to_filename"
    /\ IsFile(fs, arg)
    /\ \E k \in SpecTagsInName(arg) :
          /\ k > 1
          /\ SubSeq(arg, k - 1, k + 9)
                = <<" ", "[">> \o Crc32Hex(fs[arg]) \o <<"]">>
    /\ out.status = "already contains a CRC32 in file name."

\* C8: append_to_filename returns a true value when it has tagged and
\* renamed the file, and a false one when the name already carried a tag.
C8_AlreadyTaggedIsFalsy ==
    /\ AppendSucceeded => Truthy(ret)
    /\ ( /\ lastOp = "append_to_filename"
         /\ IsFile(fs, arg)
         /\ SpecHasTag(arg)
         /\ splitext(arg)[2] # SfvExt ) => ~Truthy(ret)

\* C9: remove_from_filename inverts append_to_filename: when
\* append_to_filename has been called on a file whose name has no tag (and
\* is no .sfv file, which it skips) and remove_from_filename is then called
\* on the path it returned, the file ends under a name in which no tag is
\* recognized, with its content.
C9_StripInvertsAppend ==
    [][ ( /\ lastOp = "append_to_filename"
          /\ ~SpecHasTag(arg)
          /\ splitext(arg)[2] # SfvExt
          /\ ret.kind = "str"
          /\ IsFile(fs, ret.val)
          /\ lastOp' = "remove_from_filename"
          /\ arg' = ret.val ) =>
        \E q \in DOMAIN fs' :
            /\ q # arg' => (~IsFile(fs', arg') /\ (IsFile(fs, q) => fs[q] # fs'[q]))
            /\ fs'[q] = fs[arg']
            /\ ~crc_regex_search(q).found ]_vars

\* s without the n characters from position k on.
Without(s, k, n) == SubSeq(s, 1, k - 1) \o SubSeq(s, k + n, Len(s))

\* C10: remove_from_filename removes exactly the tag it located, with the
\* one whitespace character before it if there is one: the file is renamed
\* to its path with that one occurrence deleted and every other character
\* in place; when it finds no tag it renames nothing and raises no error.
\* Stated for the paths in which every bracketed run the function can
\* locate is a tag of eight hexadecimal digits.
C10_StripRemovesOneOccurrence ==
    [][ ( /\ lastOp' = "remove_from_filename"
          /\ IsFile(fs, arg')
          /\ SpecTagsInPath(arg') = {k \in 1..Len(arg') : TagAt(arg', k)} ) =>
        LET m     == remove_regex_search(arg')
            start == IF m.at > 1 /\ IsSpace(arg'[m.at - 1]) THEN m.at - 1 ELSE m.at
            new   == Without(arg', start, m.at + 10 - start)
        IN IF m.found
           THEN exc' = "none" => (IsFile(fs', new) /\ fs'[new] = fs[arg'])
           ELSE fs' = fs /\ dirs' = dirs /\ exc' = "none" ]_vars

\* C11: on an existing file verify_in_filename reports exactly one of three
\* outcomes: "File Ok" when the name carries a tag equal, without regard to
\* case, to the CRC32 of the file, "File Corrupt" when it carries a tag that
\* differs, "No CRC32 in filename" when it carries none. Stated for the
\* names that carry at most one tag.
C11_ThreeOutcomes ==
    ( /\ lastOp = "verify_in_filename"
      /\ IsFile(fs, arg)
      /\ Cardinality(SpecTagsInName(arg)) <= 1 ) =>
        /\ exc = "none"
        /\ out.status =
             IF SpecTagsInName(arg) = {} THEN "No CRC32 in filename"
             ELSE LET k == Min(SpecTagsInName(arg))
                  IN IF str_upper(SubSeq(arg, k + 1, k + 8)) = Crc32Hex(fs[arg])
                     THEN "File Ok" ELSE "File Corrupt"

\* The run has left the mode m behind.
Finished(m) ==
    \/ mode \in {"done", "crashed"}
    \/ m = "verify" /\ mode \in {"append", "sfv", "checksfv"}
    \/ m = "append" /\ mode \in {"sfv", "checksfv"}
    \/ m = "sfv" /\ mode = "checksfv"

\* The reports the run made in the mode m.
ReportsOf(m) == SelectSeq(reports, LAMBDA r : r.mode = m)

\* C12: in a run over a file list, in verify mode or in SFV-check mode, a
\* file that does not exist is reported for that item only: no exception
\* escapes the function called for it, and once the mode is over every file
\* of the list has been processed and reported. Stated for the lists that
\* hold no directory.
C12_MissingFileReportedPerItem ==
    /\ ( /\ lastOp \in {"verify_in_filename", "verify_sfv_file"}
         /\ arg \notin DOMAIN fs \cup dirs ) => exc = "none"
    /\ \A m \in {"verify", "checksfv"} :
         ( /\ Requested(m)
           /\ Finished(m)
           /\ \A i \in 1..Len(filelist) : filelist[i] \notin dirs ) =>
             /\ mode # "crashed"
             /\ Len(ReportsOf(m)) = Len(filelist)
             /\ \A i \in 1..Len(filelist) : ReportsOf(m)[i].path = filelist[i]

\* The value r is the integer n.
IsInt(r, n) == r.kind = "int" /\ r.val = n

\* The input paths create_sfv_file is to write a record for: the regular
\* files whose extension is not .sfv, in input order.
RecordPaths(in_files) ==
    SelectSeq(in_files, LAMBDA p : IsFile(fs, p) /\ splitext(p)[2] # SfvExt)

\* The record lines of the paths ps: "{path} {CHECKSUM}\n" for each.
RecordLines(ps) ==
    Flatten([i \in 1..Len(ps) |->
                ps[i] \o <<" ">> \o Crc32Hex(fs[ps[i]]) \o <<"\n">>])

\* C13: create_sfv_file returns the number of records it wrote, which is
\* the number of input paths that are regular files without the extension
\* .sfv, and the file it wrote holds, after the header, exactly one line
\* "{path} {CHECKSUM}" for each of them in input order; a directory among
\* the inputs is skipped without an error. Stated for inputs that are
\* existing files or directories.
C13_CreateReturnsCount ==
    ( /\ lastOp = "create_sfv_file"
      /\ \A i \in 1..Len(filelist) : filelist[i] \in DOMAIN fs \cup dirs ) =>
        /\ exc = "none"
        /\ IsInt(ret, Len(RecordPaths(filelist)))
        /\ \E ctime \in CTimes :
             fs[arg] = head(ctime) \o RecordLines(RecordPaths(filelist))

\* Every line of the text is blank, a comment or a record, and no record
\* names a directory.
WellFormedSfv(text) ==
    \A i \in 1..Len(split_lines(text)) :
        LET l == rstrip(split_lines(text)[i])
        IN \/ l = <<>>
           \/ l[1] = ";"
           \/ parse_line(l).valid /\ parse_line(l).path \notin dirs

\* C14: for every record line of an SFV file, the checksum verify_sfv_file
\* expects is the text after the last space of the line and the path it
\* opens is exactly the text before that space, spaces in it included; the
\* counts of a file made of records and comments follow from these fields.
C14_RecordSplitsAtLastSpace ==
    (lastOp = "verify_sfv_file" /\ IsFile(fs, arg)) =>
        /\ \A i \in DOMAIN Records(fs[arg]) :
             LET l  == rstrip(split_lines(fs[arg])[i])
                 sp == rfind(l, " ")
             IN /\ record_fields(l).crc = PyFrom(l, sp + 1)
                /\ record_fields(l).cur_file = PySlice(l, 0, sp)
                /\ exc = "none" =>
                     \E j \in 1..Len(opened) : opened[j] = PySlice(l, 0, sp)
        /\ WellFormedSfv(fs[arg]) => summary = ExpectedSummary(arg)

\* A record whose path holds a space has been read and its file found
\* intact.
C14_Witness ==
    /\ lastOp = "verify_sfv_file"
    /\ arg = SfvPath
    /\ \E i \in DOMAIN Records(fs[arg]) : Records(fs[arg])[i].path = FileBC
    /\ \E j \in 1..Len(opened) : opened[j] = FileBC
    /\ summary.printed /\ summary.ok = summary.total /\ summary.total > 0

\* C15: CRC32_from_file fails in the same way for a directory as for a path
\* that does not exist, so a caller that handles the missing file handles
\* the directory too: verify_sfv_file lets no exception escape, prints its
\* summary and counts every directory it was to read as not found.
C15_DirectoryIsNotFound ==
    (lastOp = "verify_sfv_file" /\ IsFile(fs, arg)) =>
        /\ \A j \in 1..Len(opened) :
             opened[j] \in dirs =>
               CRC32_from_file(fs, dirs, opened[j]).exc = "FileNotFoundError"
        /\ exc = "none"
        /\ summary.printed
        /\ summary.not_found >=
             Cardinality({j \in 1..Len(opened) : opened[j] \in dirs})

\* C16: a rename made by append_to_filename or remove_from_filename
\* destroys no other file: every file that existed before a call on a file
\* exists after it with the same content, under its old name or, for the
\* file the call was made on, under its new one.
C16_RenameKeepsOtherFiles ==
    [][ ( /\ lastOp' \in {"append_to_filename", "remove_from_filename"}
          /\ IsFile(fs, arg') ) =>
        /\ \A p \in DOMAIN fs \ {arg'} : IsFile(fs', p) /\ fs'[p] = fs[p]
        /\ \E q \in DOMAIN fs' :
             /\ fs'[q] = fs[arg']
             /\ q = arg' \/ ~IsFile(fs, q) ]_vars

\* create_sfv_file has just written the SFV file for a list of existing
\* regular files without the extension .sfv, and verify_sfv_file is called
\* on that file next.
CreatedThenVerified ==
    /\ lastOp = "create_sfv_file"
    /\ exc = "none"
    /\ \A i \in 1..Len(filelist) :
         IsFile(fs, filelist[i]) /\ splitext(filelist[i])[2] # SfvExt
    /\ lastOp' = "verify_sfv_file"
    /\ arg' = arg

\* The summary of n records, all of them intact.
AllOk(n) ==
    [printed |-> TRUE, total |-> n, ok |-> n, corrupt |-> 0, not_found |-> 0]

\* C17 as stated: create_sfv_file followed by verify_sfv_file is a round
\* trip for every list of existing regular files without the extension
\* .sfv: the summary counts one intact record for each file of the list and
\* nothing else.
C17_CreateVerifyRoundTrip ==
    [][ CreatedThenVerified => summary' = AllOk(Len(filelist)) ]_vars

\* A path an SFV record line can carry: it does not begin with the comment
\* mark and holds no line feed.
Representable(p) == p # <<>> /\ p[1] # ";" /\ \A i \in 1..Len(p) : p[i] # "\n"

\* C17, amended: the round trip holds for the lists whose paths neither
\* begin with a semicolon nor hold a line break.
C17_RoundTripForRepresentablePaths ==
    [][ ( /\ CreatedThenVerified
          /\ \A i \in 1..Len(filelist) : Representable(filelist[i]) ) =>
        summary' = AllOk(Len(filelist)) ]_vars

\* The SFV file created for a.txt and "b c.txt" has been verified: two
\* records, both intact.
C17_Witness ==
    /\ lastOp = "verify_sfv_file"
    /\ arg = SfvPath
    /\ filelist = <<FileA, FileBC>>
    /\ fs[SfvPath] = head(CHOOSE t \in CTimes : TRUE) \o RecordLines(filelist)
    /\ summary = AllOk(2)

\* C18: the functions agree on which part of a name is the tag: the tag
\* verify_in_filename has compared with the CRC32 of the file is the one
\* remove_from_filename locates for removal, and a name append_to_filename
\* has found already tagged is one in which remove_from_filename locates a
\* tag. The first part is stated for the paths in which every bracketed run
\* the functions can locate is a tag of eight hexadecimal digits.
C18_OperationsAgreeOnTag ==
    /\ ( /\ lastOp = "verify_in_filename"
         /\ out.status \in {"File Ok", "File Corrupt"}
         /\ SpecTagsInPath(arg) = {k \in 1..Len(arg) : TagAt(arg, k)} ) =>
           /\ remove_regex_search(arg).found
           /\ remove_regex_search(arg).group2 = crc_regex_search(arg).group2
    /\ ( /\ lastOp = "append_to_filename"
         /\ out.status = "already contains a CRC32 in file name." ) =>
           remove_regex_search(arg).found

\* The place of a mode in the order verify, append, create SFV, check SFV.
ModeRank(m) ==
    CASE m = "verify" -> 1 [] m = "append" -> 2
      [] m = "sfv" -> 3 [] m = "checksfv" -> 4

\* C19: in a run that asks for both append and SFV creation over a list of
\* files that exist and carry no tag when it starts (a.txt and b.txt), the
\* modes report in the order verify, append, create SFV, check SFV, and
\* once SFV creation is over the run has not failed and the SFV file holds
\* one record for each file of the list, each naming a file that exists.
C19_AppendThenCreateSfv ==
    ( /\ options.append
      /\ options.sfv # <<>>
      /\ filelist # <<>>
      /\ \A i \in 1..Len(filelist) : filelist[i] \in {FileA, FileB} ) =>
        /\ \A i, j \in 1..Len(reports) :
             i < j => ModeRank(reports[i].mode) <= ModeRank(reports[j].mode)
        /\ Finished("sfv") =>
             /\ mode # "crashed"
             /\ IsFile(fs, options.sfv)
             /\ Cardinality(DOMAIN Records(fs[options.sfv])) = Len(filelist)
             /\ \A i \in DOMAIN Records(fs[options.sfv]) :
                  IsFile(fs, Records(fs[options.sfv])[i].path)

====
